---------------------------- MODULE Spec2Model ----------------------------
(***************************************************************************)
(* A model of urlnorm.py (URL normalisation routines).                     *)
(*                                                                         *)
(* Text is a sequence of code points (chr(i) is i, ord(c) is c).  The      *)
(* functions are modelled with the semantics of Python 2.7 on ASCII input, *)
(* the interpreter on which unquote_safe's str/unicode mix evaluates.      *)
(* A function's outcome is a record [kind, val]: kind "ok" with the        *)
(* returned text, or the name of the exception that leaves the function.   *)
(***************************************************************************)
EXTENDS Integers, Sequences, FiniteSets, TLC

(***************************************************************************)
(* Bounds of the model: the longest input text of each operation.          *)
(***************************************************************************)
MaxStrLen == 5

MaxPathLen == 4

MaxNetlocLen == 4

(***************************************************************************)
(* Characters.  Ord is ASCII; S turns a tuple of one-character strings     *)
(* into text.                                                              *)
(***************************************************************************)
Ord(c) ==
  CASE c = "%" -> 37 [] c = "/" -> 47 [] c = "." -> 46 [] c = ":" -> 58
    [] c = "@" -> 64 [] c = "[" -> 91 [] c = "]" -> 93 [] c = "-" -> 45
    [] c = "?" -> 63 [] c = "=" -> 61 [] c = "+" -> 43 [] c = "#" -> 35
    [] c = ";" -> 59 [] c = "&" -> 38
    [] c = "0" -> 48 [] c = "1" -> 49 [] c = "2" -> 50 [] c = "3" -> 51
    [] c = "4" -> 52 [] c = "5" -> 53 [] c = "6" -> 54 [] c = "7" -> 55
    [] c = "8" -> 56 [] c = "9" -> 57
    [] c = "A" -> 65 [] c = "B" -> 66 [] c = "C" -> 67 [] c = "D" -> 68
    [] c = "E" -> 69 [] c = "F" -> 70
    [] c = "a" -> 97 [] c = "b" -> 98 [] c = "c" -> 99 [] c = "d" -> 100
    [] c = "e" -> 101 [] c = "f" -> 102
    [] c = "n" -> 110 [] c = "x" -> 120

S(t) == [i \in 1..Len(t) |-> Ord(t[i])]

OrdSet(cs) == {Ord(c) : c \in cs}

Digits == 48..57

LowerHexLetters == 97..102

UpperHexLetters == 65..70

\* All texts over alphabet A of length at most n.
Texts(A, n) == UNION {[1..k -> A] : k \in 0..n}

(***************************************************************************)
(* Outcomes.                                                               *)
(***************************************************************************)
Ok(v) == [kind |-> "ok", val |-> v]

Raise(e) == [kind |-> e, val |-> <<>>]

(***************************************************************************)
(* Python string primitives used by the source.                            *)
(***************************************************************************)
RECURSIVE split(_, _)
\* s.split(sep) for a one-character separator.
split(s, sep) ==
  IF \A i \in 1..Len(s) : s[i] # sep
    THEN <<s>>
    ELSE LET i == CHOOSE k \in 1..Len(s) :
                    s[k] = sep /\ \A m \in 1..(k - 1) : s[m] # sep
         IN  <<SubSeq(s, 1, i - 1)>> \o split(SubSeq(s, i + 1, Len(s)), sep)

RECURSIVE join(_)
\* "".join(parts)
join(parts) ==
  IF parts = <<>> THEN <<>> ELSE Head(parts) \o join(Tail(parts))

\* item[:n]
Prefix(s, n) == SubSeq(s, 1, IF Len(s) < n THEN Len(s) ELSE n)

\* item[n:]
Suffix(s, n) == SubSeq(s, n + 1, Len(s))

\* s.upper() on ASCII text
upper(s) == [i \in 1..Len(s) |-> IF s[i] \in 97..122 THEN s[i] - 32 ELSE s[i]]

\* '%02x' % i and '%02X' % i
HexDigit(d, letters) == IF d < 10 THEN 48 + d ELSE letters + (d - 10)

Fmt02x(i) == <<HexDigit(i \div 16, 97), HexDigit(i % 16, 97)>>

Fmt02X(i) == <<HexDigit(i \div 16, 65), HexDigit(i % 16, 65)>>

(***************************************************************************)
(* lower: lines 50-53 bind the name to string.ascii_lowercase (the import  *)
(* succeeds on every interpreter that accepts the module, so the fallback  *)
(* to the function string.lower is never taken).  The value is a str, and  *)
(* the call lower(x) raises TypeError ('str' object is not callable).      *)
(***************************************************************************)
lower(x) == Raise("TypeError")

(***************************************************************************)
(* _utf8 and _unicode.  On ASCII text UTF-8 encoding leaves the code units *)
(* as they are.  Decoding text that holds a code unit >= 0x80 outside a    *)
(* well-formed multi-byte sequence raises a Unicode error; no text of the  *)
(* model holds a continuation byte (0x80..0xBF after a lead byte), so a    *)
(* code unit >= 0x80 is always ill-formed here.                            *)
(***************************************************************************)
_utf8(value) == value

_unicode(value) ==
  IF \E i \in 1..Len(value) : value[i] >= 128
    THEN Raise("UnicodeDecodeError")
    ELSE Ok(value)

(***************************************************************************)
(* The percent-escape codec (lines 103-147).                               *)
(***************************************************************************)
params_unsafe_list == OrdSet({"?", "=", "+", "%", "#", ";"})

qs_unsafe_list == OrdSet({"?", "&", "=", "+", "%", "#"})

fragment_unsafe_list == OrdSet({"+", "%", "#"})

path_unsafe_list == OrdSet({"/", "?", ";", "%", "+", "#"})

\* The dict of lines 107-108: two-character keys, all lower or all upper case.
_hextochr ==
  LET pairs == {<<Fmt02x(i), i>> : i \in 0..255} \cup
               {<<Fmt02X(i), i>> : i \in 0..255}
  IN  [k \in {p[1] : p \in pairs} |-> (CHOOSE p \in pairs : p[1] = k)[2]]

\* unquote_item with the test of the unsafe list left out.
unquote_item_mut(item, unsafe_list) ==
  LET key == Prefix(item, 2)
  IN  IF key \notin DOMAIN _hextochr
        THEN <<37>> \o item
        ELSE LET raw_chr == _hextochr[key]
             IN  IF raw_chr < 20
                   THEN <<37>> \o upper(key) \o Suffix(item, 2)
                   ELSE <<raw_chr>> \o Suffix(item, 2)

\* One iteration of the loop of lines 132-145 on res[i] = item.
unquote_item(item, unsafe_list) ==
  LET key == Prefix(item, 2)
  IN  IF key \notin DOMAIN _hextochr
        THEN <<37>> \o item                                   \* KeyError
        ELSE LET raw_chr == _hextochr[key]
             IN  IF raw_chr \in unsafe_list \/ raw_chr < 20
                   THEN <<37>> \o upper(key) \o Suffix(item, 2)
                   ELSE <<raw_chr>> \o Suffix(item, 2)

unquote_safe(s, unsafe_list) ==
  LET res == split(_utf8(s), 37)
      out == [i \in 1..Len(res) |->
                IF i = 1 THEN res[i] ELSE unquote_item(res[i], unsafe_list)]
  IN  _unicode(join(out))

unquote_path(s) == unquote_safe(s, path_unsafe_list)

unquote_params(s) == unquote_safe(s, params_unsafe_list)

unquote_qs(s) == unquote_safe(s, qs_unsafe_list)

unquote_fragment(s) == unquote_safe(s, fragment_unsafe_list)

\* The four entry points by name.
UnquoteIn(ctx, s) ==
  CASE ctx = "path" -> unquote_path(s)
    [] ctx = "params" -> unquote_params(s)
    [] ctx = "qs" -> unquote_qs(s)
    [] ctx = "fragment" -> unquote_fragment(s)

Contexts == {"path", "params", "qs", "fragment"}

(***************************************************************************)
(* The path normaliser (lines 71, 88-101, 176-187).                        *)
(***************************************************************************)
\* _relative_schemes without the empty scheme.
_relative_schemes_mut ==
  {"http", "https", "ws", "wss", "itms", "news", "snews", "nntp", "snntp",
   "ftp", "file"}

_relative_schemes ==
  {"http", "https", "ws", "wss", "itms", "news", "snews", "nntp", "snntp",
   "ftp", "file", ""}

\* The text p holds t at position i.
At(p, i, t) ==
  /\ i >= 1
  /\ i + Len(t) - 1 <= Len(p)
  /\ \A k \in 1..Len(t) : p[i + k - 1] = t[k]

\* '$' after the character at position k: the end of the text, or just
\* before a newline that ends it.
AtEnd(p, k) == k = Len(p) \/ (k = Len(p) - 1 /\ p[Len(p)] = 10)

\* The last position of the run of non-slash characters that starts at i.
RunEnd(p, i) ==
  CHOOSE j \in i..Len(p) :
    /\ \A k \in i..j : p[k] # 47
    /\ (j = Len(p) \/ p[j + 1] = 47)

\* CollapseMatchLen with the alternative '//' left out of the pattern.
CollapseMatchLen_mut(p, i) ==
  IF p[i] # 47
    THEN LET j == RunEnd(p, i)
         IN  IF At(p, j + 1, S(<<"/", ".", ".">>))
               THEN (j - i + 1) + 3 + (IF At(p, j + 4, S(<<"/">>)) THEN 1 ELSE 0)
               ELSE 0
    ELSE IF At(p, i, S(<<"/", ".", "/">>)) THEN 3
    ELSE IF At(p, i, S(<<"/", ".">>)) /\ AtEnd(p, i + 1) THEN 2
    ELSE IF At(p, i, S(<<"/", ".", ".">>)) /\ AtEnd(p, i + 2) THEN 3
    ELSE 0

\* The length of the match of _collapse that starts at position i, 0 when
\* there is none.  The alternatives are tried in the order of line 71:
\*   [^/]+/\.\./?   /\./   //   /\.$   /\.\.$
CollapseMatchLen(p, i) ==
  IF p[i] # 47
    THEN LET j == RunEnd(p, i)
         IN  IF At(p, j + 1, S(<<"/", ".", ".">>))
               THEN (j - i + 1) + 3 + (IF At(p, j + 4, S(<<"/">>)) THEN 1 ELSE 0)
               ELSE 0
    ELSE IF At(p, i, S(<<"/", ".", "/">>)) THEN 3
    ELSE IF At(p, i, S(<<"/", "/">>)) THEN 2
    ELSE IF At(p, i, S(<<"/", ".">>)) /\ AtEnd(p, i + 1) THEN 2
    ELSE IF At(p, i, S(<<"/", ".", ".">>)) /\ AtEnd(p, i + 2) THEN 3
    ELSE 0

\* _collapse.sub('/', path, 1): the leftmost match replaced by '/'.
_collapse_sub(path) ==
  LET starts == {i \in 1..Len(path) : CollapseMatchLen(path, i) > 0}
  IN  IF starts = {}
        THEN path
        ELSE LET i == CHOOSE k \in starts : \A m \in starts : k <= m
                 n == CollapseMatchLen(path, i)
             IN  SubSeq(path, 1, i - 1) \o <<47>> \o
                 SubSeq(path, i + n, Len(path))

\* Lines 184-187: unquote, and '/' for an empty path.
norm_path_tail(path) ==
  LET r == unquote_path(path)
  IN  IF r.kind # "ok" THEN r
      ELSE IF r.val = <<>> THEN Ok(S(<<"/">>))
      ELSE r

\* norm_path as one call (lines 176-187).
RECURSIVE collapse_loop(_)
collapse_loop(path) ==
  LET next == _collapse_sub(path)
  IN  IF next = path THEN path ELSE collapse_loop(next)

norm_path(scheme, path) ==
  norm_path_tail(IF scheme \in _relative_schemes
                   THEN collapse_loop(path)
                   ELSE path)

(***************************************************************************)
(* Integers.  An int is carried as two limbs, hi * 2^16 + lo with lo in    *)
(* 0..65535, so that values around 2^32 stay inside 32-bit arithmetic.     *)
(* isinstance(ipnum, int) of line 193 holds for every value of the model.  *)
(***************************************************************************)
Limb == 256 * 256

Num(hi, lo) == [hi |-> hi, lo |-> lo]

NumLess(a, b) == a.hi < b.hi \/ (a.hi = b.hi /\ a.lo < b.lo)

\* ipnum >> k for k in {8, 16, 24}, and x & 0xFF
Shr(ipnum, k) ==
  CASE k = 24 -> ipnum.hi \div 256
    [] k = 16 -> ipnum.hi
    [] k = 8 -> ipnum.hi * 256 + (ipnum.lo \div 256)

AndFF(x) == x % 256

RECURSIVE DecimalDigits(_)
\* '%d' % n
DecimalDigits(n) ==
  IF n < 10 THEN <<48 + n>> ELSE DecimalDigits(n \div 10) \o <<48 + (n % 10)>>

FormatD(n) == IF n < 0 THEN <<45>> \o DecimalDigits(-n) ELSE DecimalDigits(n)

RECURSIVE ParseInt(_)
\* int(host) for a text of decimal digits
ParseInt(s) ==
  IF s = <<>> THEN Num(0, 0)
  ELSE LET m == ParseInt(SubSeq(s, 1, Len(s) - 1))
           lo10 == m.lo * 10 + (s[Len(s)] - 48)
       IN  Num(m.hi * 10 + (lo10 \div Limb), lo10 % Limb)

\* s.isdigit()
isdigit(s) == s # <<>> /\ \A i \in 1..Len(s) : s[i] \in Digits

(***************************************************************************)
(* int2ip (lines 189-200).                                                 *)
(***************************************************************************)
MAX_IP == Num(65535, 65535)

\* int2ip with the mask of the second byte left out.
int2ip_mut(ipnum) ==
  IF NumLess(MAX_IP, ipnum) \/ ipnum.hi < 0
    THEN Raise("TypeError")
    ELSE LET ip1 == Shr(ipnum, 24)
             ip2 == Shr(ipnum, 16)
             ip3 == AndFF(Shr(ipnum, 8))
             ip4 == AndFF(ipnum.lo)
         IN  Ok(FormatD(ip1) \o <<46>> \o FormatD(ip2) \o <<46>> \o
                FormatD(ip3) \o <<46>> \o FormatD(ip4))

int2ip(ipnum) ==
  IF NumLess(MAX_IP, ipnum) \/ ipnum.hi < 0
    THEN Raise("TypeError")
    ELSE LET ip1 == Shr(ipnum, 24)
             ip2 == AndFF(Shr(ipnum, 16))
             ip3 == AndFF(Shr(ipnum, 8))
             ip4 == AndFF(ipnum.lo)
         IN  Ok(FormatD(ip1) \o <<46>> \o FormatD(ip2) \o <<46>> \o
                FormatD(ip3) \o <<46>> \o FormatD(ip4))

(***************************************************************************)
(* The authority normaliser (lines 72-87, 203-242).                        *)
(***************************************************************************)
\* A group that did not take part in the match (Python's None).
None == <<-1>>

NoMatch == [matched |-> FALSE, userinfo |-> None, host |-> None, port |-> None]

\* The last position of the run of characters of class cls that starts at i.
ClassRunEnd(r, i, cls) ==
  CHOOSE j \in i..Len(r) :
    /\ \A k \in i..j : r[k] \in cls
    /\ (j = Len(r) \/ r[j + 1] \notin cls)

\* [a-fA-F0-9\:\.]
BracketClass == Digits \cup LowerHexLetters \cup UpperHexLetters \cup {58, 46}

\* [^\:\[\]] within the code points of the model
HostClass == (0..255) \ {58, 91, 93}

\* (?:\:(.*?))?$ from position e + 1 of r, after a host that ends at e.
PortMatch(r, e, userinfo) ==
  LET hostText == SubSeq(r, 1, e)
      q == SubSeq(r, e + 2, Len(r))
  IN  IF AtEnd(r, e)
        THEN [matched |-> TRUE, userinfo |-> userinfo, host |-> hostText,
              port |-> None]
      ELSE IF r[e + 1] # 58 THEN NoMatch
      ELSE IF \A i \in 1..Len(q) : q[i] # 10
        THEN [matched |-> TRUE, userinfo |-> userinfo, host |-> hostText,
              port |-> q]
      ELSE IF \A i \in 1..(Len(q) - 1) : q[i] # 10
        THEN [matched |-> TRUE, userinfo |-> userinfo, host |-> hostText,
              port |-> SubSeq(q, 1, Len(q) - 1)]
      ELSE NoMatch

\* ([^\:\[\]]+|\[[a-fA-F0-9\:\.]+\])(?:\:(.*?))?$ on r.
HostPortMatch(r, userinfo) ==
  IF r = <<>> THEN NoMatch
  ELSE IF r[1] = 91
    THEN IF Len(r) >= 2 /\ r[2] \in BracketClass
           THEN LET j == ClassRunEnd(r, 2, BracketClass)
                IN  IF j < Len(r) /\ r[j + 1] = 93
                      THEN PortMatch(r, j + 1, userinfo)
                      ELSE NoMatch
           ELSE NoMatch
  ELSE IF r[1] \notin HostClass THEN NoMatch
  ELSE PortMatch(r, ClassRunEnd(r, 1, HostClass), userinfo)

\* _server_authority with the userinfo taken up to the last '@'.
_server_authority_mut(netloc) ==
  LET ats == {i \in 1..Len(netloc) : netloc[i] = 64}
      k == IF ats = {} THEN 0 ELSE CHOOSE i \in ats : \A m \in ats : i >= m
      withUser == IF k >= 2
                    THEN HostPortMatch(SubSeq(netloc, k + 1, Len(netloc)),
                                       SubSeq(netloc, 1, k - 1))
                    ELSE NoMatch
  IN  IF withUser.matched THEN withUser ELSE HostPortMatch(netloc, None)

\* _server_authority.match(netloc) of line 72: the optional group
\* (?:([^\@]+)\@)? is tried first, and dropped if the rest then fails.
_server_authority(netloc) ==
  LET ats == {i \in 1..Len(netloc) : netloc[i] = 64}
      k == IF ats = {} THEN 0 ELSE CHOOSE i \in ats : \A m \in ats : i <= m
      withUser == IF k >= 2
                    THEN HostPortMatch(SubSeq(netloc, k + 1, Len(netloc)),
                                       SubSeq(netloc, 1, k - 1))
                    ELSE NoMatch
  IN  IF withUser.matched THEN withUser ELSE HostPortMatch(netloc, None)

_default_port ==
  [s \in {"http", "itms", "ws", "https", "wss", "gopher", "news", "snews",
          "nntp", "snntp", "ftp", "telnet", "prospero"} |->
     CASE s \in {"http", "itms", "ws"} -> S(<<"8", "0">>)
       [] s \in {"https", "wss"} -> S(<<"4", "4", "3">>)
       [] s = "gopher" -> S(<<"7", "0">>)
       [] s \in {"news", "nntp"} -> S(<<"1", "1", "9">>)
       [] s \in {"snews", "snntp"} -> S(<<"5", "6", "3">>)
       [] s = "ftp" -> S(<<"2", "1">>)
       [] s = "telnet" -> S(<<"2", "3">>)
       [] s = "prospero" -> S(<<"1", "9", "1">>)]

\* Lines 212-222: the checks on the host group.
netloc_host(host0) ==
  LET ip == int2ip(ParseInt(host0))
      host1 == IF isdigit(host0) /\ ip.kind = "ok" THEN ip.val ELSE host0
      host2 == IF host1[Len(host1)] = 46
                 THEN SubSeq(host1, 1, Len(host1) - 1)
                 ELSE host1
  IN  IF isdigit(host0) /\ ip.kind = "TypeError" THEN Raise("InvalidUrl")
      ELSE IF \A i \in 1..Len(host2) : host2[i] # 46
        THEN IF host2 = <<>> THEN Raise("IndexError")        \* host[0]
             ELSE IF host2[1] = 91 /\ host2[Len(host2)] = 93 THEN Ok(host2)
             ELSE Raise("InvalidUrl")
      ELSE Ok(host2)

\* Lines 229-233: userinfo and port put back.
netloc_reattach(scheme, userinfo, authority, port) ==
  LET withUser == IF userinfo # None /\ userinfo # <<>>
                    THEN userinfo \o <<64>> \o authority
                    ELSE authority
      dflt == IF scheme \in DOMAIN _default_port
                THEN _default_port[scheme]
                ELSE None
  IN  IF port # None /\ port # <<>> /\ port # dflt
        THEN withUser \o <<58>> \o port
        ELSE withUser

\* Lines 224-233.  The call of lower comes first; the IDN decoding of
\* 'xn--' labels (lines 225-227, 236-242) follows it and is not modelled.
netloc_authority(scheme, userinfo, host, port) ==
  LET l == lower(host)
  IN  IF l.kind # "ok" THEN l
      ELSE Ok(netloc_reattach(scheme, userinfo, l.val, port))

\* norm_netloc as one call (lines 203-233).
norm_netloc(scheme, netloc) ==
  IF netloc = <<>> THEN Ok(netloc)
  ELSE LET g == _server_authority(netloc)
       IN  IF ~g.matched THEN Raise("InvalidUrl")
           ELSE LET h == netloc_host(g.host)
                IN  IF h.kind # "ok" THEN h
                    ELSE netloc_authority(scheme, g.userinfo, h.val, g.port)

(***************************************************************************)
(* norm_tuple (lines 158-173).  t is the six-part tuple as a record.       *)
(***************************************************************************)
norm_tuple_tail(scheme, t) ==
  LET authority == norm_netloc(scheme, t.authority)
      path == norm_path(scheme, t.path)
      parameters == unquote_params(t.parameters)
      query == unquote_qs(t.query)
      fragment == unquote_fragment(t.fragment)
  IN  IF scheme = "" THEN Raise("InvalidUrl")
      ELSE IF authority.kind # "ok" THEN authority
      ELSE IF authority.val = <<>> THEN Raise("InvalidUrl")
      ELSE IF path.kind # "ok" THEN path
      ELSE IF parameters.kind # "ok" THEN parameters
      ELSE IF query.kind # "ok" THEN query
      ELSE IF fragment.kind # "ok" THEN fragment
      ELSE Ok([scheme |-> scheme, authority |-> authority.val,
               path |-> path.val, parameters |-> parameters.val,
               query |-> query.val, fragment |-> fragment.val])

norm_tuple(t) ==
  LET l == lower(t.scheme)
  IN  IF l.kind # "ok" THEN l ELSE norm_tuple_tail(l.val, t)

(***************************************************************************)
(* State: one call of one function, with its inputs and its locals.        *)
(***************************************************************************)
VARIABLES
  op,        \* the function called
  pc,        \* position in it
  round,     \* 1: first call; 2: called again on its own result
  ctx,       \* unquote: which of the four entry points
  scheme,    \* the scheme argument
  inp,       \* the text argument (s, path, netloc)
  first,     \* the argument of the first call (kept when round = 2)
  path,      \* norm_path: the local path
  last_path, \* norm_path: the local last_path
  passes,    \* norm_path: executions of line 180 so far
  subs,      \* norm_path: those of them that changed the path
  groups,    \* norm_netloc: match.groups() of line 210
  host,      \* norm_netloc: the local host after lines 212-218
  ipnum,     \* int2ip: the argument
  tuple,     \* norm_tuple: the six arguments
  ret        \* the outcome, once pc = "done"

vars ==
  <<op, pc, round, ctx, scheme, inp, first, path, last_path, passes, subs,
    groups, host, ipnum, tuple, ret>>

UnquoteChars == OrdSet({"%", "1", "2", "6", "f", "F", "/"})

PathChars == OrdSet({"/", ".", "a", "%", "2", "e"})

NetlocChars == OrdSet({"a", ".", "@", ":", "8", "[", "]"})

Schemes == {"http", "file", "", "mailto", "gopher"}

\* Hosts written as one integer, at and around MAX_IP.
LongNetlocs ==
  {S(<<"3", "2", "2", "1", "2", "2", "5", "9", "8", "5">>),
   S(<<"4", "2", "9", "4", "9", "6", "7", "2", "9", "5">>),
   S(<<"4", "2", "9", "4", "9", "6", "7", "2", "9", "6">>),
   S(<<"9", "9", "9", "9", "9", "9", "9", "9", "9", "9", "9", "9">>),
   S(<<"a", "@", "4", "2", "9", "4", "9", "6", "7", "2", "9", "6", ":", "8">>)}

\* Arguments of int2ip: limbs at the byte boundaries, below 0 and above
\* MAX_IP (3221225985 is 49152 * 2^16 + 513).
IpHi == {-1, 0, 1, 255, 256, 49152, 65535, 65536, 65537}

IpLo == {0, 1, 255, 256, 513, 65535}

TupleInputs ==
  [scheme : {"http", "HTTP", ""},
   authority : {<<>>, S(<<"a", ".", "a">>), S(<<"a", ".", "a", ":", "8", "0">>)},
   path : {<<>>, S(<<"/", "%", "2", "e">>)},
   parameters : {<<>>},
   query : {<<>>, S(<<"%", "2", "f">>)},
   fragment : {<<>>, S(<<"%", "%", "6", "6", "2">>)}]

NoText == <<>>

NoTuple ==
  [scheme |-> "", authority |-> <<>>, path |-> <<>>, parameters |-> <<>>,
   query |-> <<>>, fragment |-> <<>>]

\* The locals of the functions that are not running.
Idle ==
  /\ path = NoText /\ last_path = NoText /\ passes = 0 /\ subs = 0
  /\ groups = NoMatch /\ host = NoText
  /\ ret = Raise("none")

InitUnquote ==
  /\ op = "unquote"
  /\ pc = "start"
  /\ round = 1
  /\ ctx \in Contexts
  /\ scheme = ""
  /\ inp \in Texts(UnquoteChars, MaxStrLen)
  /\ first = inp
  /\ ipnum = Num(0, 0) /\ tuple = NoTuple
  /\ Idle

InitNormPath ==
  /\ op = "norm_path"
  /\ pc = "start"
  /\ round = 1
  /\ ctx = "path"
  /\ scheme \in Schemes
  /\ inp \in Texts(PathChars, MaxPathLen)
  /\ first = inp
  /\ ipnum = Num(0, 0) /\ tuple = NoTuple
  /\ Idle

InitInt2ip ==
  /\ op = "int2ip"
  /\ pc = "start"
  /\ round = 1
  /\ ctx = "path"
  /\ scheme = ""
  /\ inp = NoText
  /\ first = inp
  /\ ipnum \in {Num(h, l) : h \in IpHi, l \in IpLo}
  /\ tuple = NoTuple
  /\ Idle

InitNormNetloc ==
  /\ op = "norm_netloc"
  /\ pc = "start"
  /\ round = 1
  /\ ctx = "path"
  /\ scheme \in Schemes
  /\ inp \in Texts(NetlocChars, MaxNetlocLen) \cup LongNetlocs
  /\ first = inp
  /\ ipnum = Num(0, 0) /\ tuple = NoTuple
  /\ Idle

InitNormTuple ==
  /\ op = "norm_tuple"
  /\ pc = "start"
  /\ round = 1
  /\ ctx = "path"
  /\ scheme = ""
  /\ inp = NoText
  /\ first = inp
  /\ ipnum = Num(0, 0)
  /\ tuple \in TupleInputs
  /\ Idle

Init ==
  \/ InitUnquote
  \/ InitNormPath
  \/ InitInt2ip
  \/ InitNormNetloc
  \/ InitNormTuple

\* unquote_path, unquote_params, unquote_qs or unquote_fragment (lines 111-147).
UnquoteCall ==
  /\ op = "unquote"
  /\ pc = "start"
  /\ ret' = UnquoteIn(ctx, inp)
  /\ pc' = "done"
  /\ UNCHANGED <<op, round, ctx, scheme, inp, first, path, last_path, passes,
                 subs, groups, host, ipnum, tuple>>

\* Lines 176-178: enter norm_path; the loop only for a relative scheme.
NormPathEnter ==
  /\ op = "norm_path"
  /\ pc = "start"
  /\ path' = inp
  /\ passes' = 0
  /\ subs' = 0
  /\ IF scheme \in _relative_schemes
       THEN last_path' = inp /\ pc' = "sub"
       ELSE last_path' = NoText /\ pc' = "unquote"
  /\ UNCHANGED <<op, round, ctx, scheme, inp, first, groups, host, ipnum,
                 tuple, ret>>

\* Line 180: one substitution pass.
CollapsePass ==
  /\ op = "norm_path"
  /\ pc = "sub"
  /\ path' = _collapse_sub(path)
  /\ passes' = passes + 1
  /\ pc' = "compare"
  /\ UNCHANGED <<op, round, ctx, scheme, inp, first, last_path, subs, groups,
                 host, ipnum, tuple, ret>>

\* Lines 181-183: leave the loop when the pass changed nothing.
CollapseCompare ==
  /\ op = "norm_path"
  /\ pc = "compare"
  /\ IF last_path = path
       THEN pc' = "unquote" /\ UNCHANGED <<last_path, subs>>
       ELSE pc' = "sub" /\ last_path' = path /\ subs' = subs + 1
  /\ UNCHANGED <<op, round, ctx, scheme, inp, first, path, passes, groups,
                 host, ipnum, tuple, ret>>

\* Lines 184-187.
NormPathReturn ==
  /\ op = "norm_path"
  /\ pc = "unquote"
  /\ ret' = norm_path_tail(path)
  /\ pc' = "done"
  /\ UNCHANGED <<op, round, ctx, scheme, inp, first, path, last_path, passes,
                 subs, groups, host, ipnum, tuple>>

\* The caller normalises the returned text again (norm(norm(u))).
Renormalize ==
  /\ op \in {"unquote", "norm_path"}
  /\ pc = "done"
  /\ round = 1
  /\ ret.kind = "ok"
  /\ inp' = ret.val
  /\ round' = 2
  /\ pc' = "start"
  /\ path' = NoText /\ last_path' = NoText /\ passes' = 0 /\ subs' = 0
  /\ ret' = Raise("none")
  /\ UNCHANGED <<op, ctx, scheme, first, groups, host, ipnum, tuple>>

\* int2ip (lines 192-200).
Int2ipCall ==
  /\ op = "int2ip"
  /\ pc = "start"
  /\ ret' = int2ip(ipnum)
  /\ pc' = "done"
  /\ UNCHANGED <<op, round, ctx, scheme, inp, first, path, last_path, passes,
                 subs, groups, host, ipnum, tuple>>

\* Lines 204-210: the empty netloc, and the match of _server_authority.
NetlocMatch ==
  /\ op = "norm_netloc"
  /\ pc = "start"
  /\ IF inp = <<>>
       THEN ret' = Ok(inp) /\ pc' = "done" /\ UNCHANGED groups
       ELSE LET g == _server_authority(inp)
            IN  /\ groups' = g
                /\ IF g.matched
                     THEN pc' = "host" /\ UNCHANGED ret
                     ELSE pc' = "done" /\ ret' = Raise("InvalidUrl")
  /\ UNCHANGED <<op, round, ctx, scheme, inp, first, path, last_path, passes,
                 subs, host, ipnum, tuple>>

\* Lines 212-222: integer host, trailing dot, and the dot-or-bracket check.
NetlocHost ==
  /\ op = "norm_netloc"
  /\ pc = "host"
  /\ LET h == netloc_host(groups.host)
     IN  IF h.kind = "ok"
           THEN host' = h.val /\ pc' = "authority" /\ UNCHANGED ret
           ELSE ret' = h /\ pc' = "done" /\ UNCHANGED host
  /\ UNCHANGED <<op, round, ctx, scheme, inp, first, path, last_path, passes,
                 subs, groups, ipnum, tuple>>

\* Lines 224-233.
NetlocAuthority ==
  /\ op = "norm_netloc"
  /\ pc = "authority"
  /\ ret' = netloc_authority(scheme, groups.userinfo, host, groups.port)
  /\ pc' = "done"
  /\ UNCHANGED <<op, round, ctx, scheme, inp, first, path, last_path, passes,
                 subs, groups, host, ipnum, tuple>>

\* norm_tuple (lines 158-173).
NormTupleCall ==
  /\ op = "norm_tuple"
  /\ pc = "start"
  /\ ret' = norm_tuple(tuple)
  /\ pc' = "done"
  /\ UNCHANGED <<op, round, ctx, scheme, inp, first, path, last_path, passes,
                 subs, groups, host, ipnum, tuple>>

Next ==
  \/ UnquoteCall
  \/ NormPathEnter
  \/ CollapsePass
  \/ CollapseCompare
  \/ NormPathReturn
  \/ Renormalize
  \/ Int2ipCall
  \/ NetlocMatch
  \/ NetlocHost
  \/ NetlocAuthority
  \/ NormTupleCall

Spec == Init /\ [][Next]_vars



(***************************************************************************)
(* What the specification states, written independently of the            *)
(* definitions above.                                                      *)
(***************************************************************************)
SpecUnsafe(c) ==
  CASE c = "path" -> OrdSet({"/", "?", ";", "%", "+", "#"})
    [] c = "params" -> OrdSet({"?", "=", "+", "%", "#", ";"})
    [] c = "qs" -> OrdSet({"?", "&", "=", "+", "%", "#"})
    [] c = "fragment" -> OrdSet({"+", "%", "#"})

SpecHierarchical ==
  {"http", "https", "ws", "wss", "itms", "news", "snews", "nntp", "snntp",
   "ftp", "file", ""}

SpecDefaultPort(s) ==
  CASE s \in {"http", "itms", "ws"} -> S(<<"8", "0">>)
    [] s \in {"https", "wss"} -> S(<<"4", "4", "3">>)
    [] s = "gopher" -> S(<<"7", "0">>)
    [] s \in {"news", "nntp"} -> S(<<"1", "1", "9">>)
    [] s \in {"snews", "snntp"} -> S(<<"5", "6", "3">>)
    [] s = "ftp" -> S(<<"2", "1">>)
    [] s = "telnet" -> S(<<"2", "3">>)
    [] s = "prospero" -> S(<<"1", "9", "1">>)
    [] OTHER -> None

IsHex(c) == c \in Digits \cup LowerHexLetters \cup UpperHexLetters

\* A '%' followed by two hex digits, one of them a lowercase letter.
HasLowercaseEscape(s) ==
  \E i \in 1..(Len(s) - 2) :
    /\ s[i] = 37
    /\ IsHex(s[i + 1]) /\ IsHex(s[i + 2])
    /\ (s[i + 1] \in LowerHexLetters \/ s[i + 2] \in LowerHexLetters)

\* The characters of s that are in set cs, in order.
Only(s, cs) == SelectSeq(s, LAMBDA c : c \in cs)

Done(f) == op = f /\ pc = "done"

(***************************************************************************)
(* C1.  Idempotence of normalize: when norm_tuple succeeds, normalising    *)
(* its result again succeeds and changes nothing; in particular the path,  *)
(* parameters, query and fragment it returns are left as they are by a     *)
(* second normalisation (norm_path and the unquote functions called on     *)
(* their own result return it unchanged).                                  *)
(***************************************************************************)
C1_Idempotent ==
  /\ (Done("norm_tuple") /\ ret.kind = "ok") =>
       norm_tuple(ret.val) = ret
  /\ ((Done("unquote") \/ Done("norm_path")) /\ round = 2) =>
       ret = Ok(inp)

(***************************************************************************)
(* C2.  unquote_safe keeps a well-formed escape as an escape with          *)
(* uppercase digits when the decoded character is unsafe or a control      *)
(* character (code point below 32), and decodes it otherwise; so no escape *)
(* of a code point in 0..31 is ever decoded: a text without a raw control  *)
(* character is unquoted to a text without one.                            *)
(***************************************************************************)
C2_NoRawControl ==
  (Done("unquote") /\ ret.kind = "ok" /\ \A i \in 1..Len(inp) : inp[i] >= 32)
    => \A i \in 1..Len(ret.val) : ret.val[i] >= 32

(***************************************************************************)
(* C3.  Default-port elision: for a netloc that parses to host and port,   *)
(* norm_netloc returns an authority that ends with ':port' exactly when    *)
(* the port is not empty and is not the scheme's default port.             *)
(***************************************************************************)
C3_PortElision ==
  (Done("norm_netloc") /\ groups.matched /\ host # NoText) =>
    /\ ret.kind = "ok"
    /\ LET port == groups.port
           kept == /\ port # None /\ port # <<>>
                   /\ port # SpecDefaultPort(scheme)
           tail == <<58>> \o port
       IN  kept <=>
             /\ port # None
             /\ Len(ret.val) > Len(tail)
             /\ SubSeq(ret.val, Len(ret.val) - Len(tail) + 1, Len(ret.val))
                  = tail

(***************************************************************************)
(* C4.  Single error kind: for a non-empty netloc norm_netloc returns an   *)
(* authority or raises InvalidUrl, and nothing else.                       *)
(***************************************************************************)
C4_SingleErrorKind ==
  (Done("norm_netloc") /\ inp # <<>>) => ret.kind \in {"ok", "InvalidUrl"}

(***************************************************************************)
(* C5.  Every percent-escape triplet in a successfully produced result has *)
(* uppercase hex digits: the tuple norm_tuple returns, and so each         *)
(* component text its normalisers return, holds no '%' followed by two hex *)
(* digits of which one is a lowercase letter.                              *)
(***************************************************************************)
C5_UppercaseEscapes ==
  /\ (Done("norm_tuple") /\ ret.kind = "ok") =>
       \A f \in {"authority", "path", "parameters", "query", "fragment"} :
         ~HasLowercaseEscape(ret.val[f])
  /\ ((Done("unquote") \/ Done("norm_path") \/ Done("norm_netloc"))
        /\ ret.kind = "ok") =>
       ~HasLowercaseEscape(ret.val)

(***************************************************************************)
(* C6.  int2ip: for 0 <= n <= 4294967295 the result is 'b3.b2.b1.b0' with  *)
(* every b in 0..255 and b3*2^24 + b2*2^16 + b1*2^8 + b0 = n; for any      *)
(* other n it raises the out-of-range error (TypeError), which norm_netloc *)
(* turns into InvalidUrl when the host is all decimal digits.              *)
(***************************************************************************)
RECURSIVE SmallInt(_)
\* The number a short text of decimal digits denotes.
SmallInt(s) ==
  IF s = <<>> THEN 0 ELSE SmallInt(SubSeq(s, 1, Len(s) - 1)) * 10 + (s[Len(s)] - 48)

RECURSIVE StripZeros(_)
StripZeros(s) ==
  IF s # <<>> /\ s[1] = 48 THEN StripZeros(Tail(s)) ELSE s

\* Decimal text s denotes a number above 4294967295.
Above32Bits(s) ==
  LET d == StripZeros(s)
      m == S(<<"4", "2", "9", "4", "9", "6", "7", "2", "9", "5">>)
  IN  \/ Len(d) > Len(m)
      \/ /\ Len(d) = Len(m)
         /\ \E i \in 1..Len(m) :
              d[i] > m[i] /\ \A k \in 1..(i - 1) : d[k] = m[k]

IsDottedQuadOf(text, n) ==
  LET b == split(text, 46)
  IN  /\ Len(b) = 4
      /\ \A i \in 1..4 :
           /\ isdigit(b[i]) /\ Len(b[i]) <= 3
           /\ SmallInt(b[i]) \in 0..255
      /\ SmallInt(b[1]) * 256 + SmallInt(b[2]) = n.hi
      /\ SmallInt(b[3]) * 256 + SmallInt(b[4]) = n.lo

C7_NormPath ==
  Done("norm_path") =>
    /\ (scheme \in SpecHierarchical) <=> (passes >= 1)
    /\ scheme \notin SpecHierarchical =>
         LET u == unquote_path(inp)
         IN  ret = IF u = Ok(<<>>) THEN Ok(S(<<"/">>)) ELSE u
    /\ ret.kind = "ok" => ret.val # <<>>

C7_Witness ==
  /\ Done("norm_path")
  /\ scheme = "mailto"
  /\ inp = S(<<"a", "/", ".", ".">>)
  /\ ret = Ok(inp)

(***************************************************************************)
(* C8 as stated.  For every accepted netloc the userinfo is everything     *)
(* before the LAST '@' and the port is everything after the LAST ':' that  *)
(* is not inside '[...]'.                                                  *)
(***************************************************************************)
Positions(s, c) == {i \in 1..Len(s) : s[i] = c}

Max(ns) == CHOOSE n \in ns : \A m \in ns : m <= n

Min(ns) == CHOOSE n \in ns : \A m \in ns : n <= m

\* The positions of the ':' of r that are outside a leading '[...]'.
OuterColons(r) ==
  LET close == Positions(r, 93)
      from == IF r # <<>> /\ r[1] = 91 /\ close # {} THEN Min(close) ELSE 0
  IN  {i \in Positions(r, 58) : i > from}

EndsWith(p, t) == Len(p) >= Len(t) /\ At(p, Len(p) - Len(t) + 1, t)

Collapsible(p) ==
  \/ \E i \in 1..Len(p) : At(p, i, S(<<"/", "/">>))
  \/ \E i \in 1..Len(p) : At(p, i, S(<<"/", ".", "/">>))
  \/ EndsWith(p, S(<<"/", ".">>))
  \/ EndsWith(p, S(<<"/", ".", ".">>))
  \/ \E i \in 1..Len(p) : p[i] # 47 /\ At(p, i + 1, S(<<"/", ".", ".">>))

LoopRan == op = "norm_path" /\ pc \in {"unquote", "done"} /\ passes >= 1

\* C9 as stated: changing passes shorten the path, passes <= length of the
\* input path, and no match of the pattern is left at exit.
C9_PassesAtMostLength ==
  (op = "norm_path" /\ pc \in {"sub", "compare", "unquote", "done"}) =>
    /\ pc = "compare" => (path = last_path \/ Len(path) < Len(last_path))
    /\ passes <= Len(inp)
    /\ LoopRan => ~Collapsible(path)

(***************************************************************************)
(* C9 as amended.  The same, with the bound on the passes corrected for    *)
(* the pass that ends the loop: the passes that change the path are at     *)
(* most the length of the input path, and the passes in all are at most    *)
(* that length, or one for the empty path.                                 *)
(***************************************************************************)
\* C9 as amended: as above, with passes <= max(1, length of the input path).
C9_CollapseLoop ==
  (op = "norm_path" /\ pc \in {"sub", "compare", "unquote", "done"}) =>
    /\ pc = "compare" => (path = last_path \/ Len(path) < Len(last_path))
    /\ subs <= Len(inp)
    /\ passes <= (IF inp = <<>> THEN 1 ELSE Len(inp))
    /\ LoopRan => (passes = subs + 1 /\ ~Collapsible(path))

C9_Witness ==
  /\ LoopRan
  /\ inp = S(<<"/", "/", "/", "/">>)
  /\ passes = 4
  /\ path = S(<<"/">>)

(***************************************************************************)
(* C10.  Unquoting never produces a raw unsafe character: the unsafe       *)
(* characters of the context other than '%' that occur in the result are   *)
(* those that occur unescaped in the argument, in the same order and       *)
(* number.                                                                 *)
(***************************************************************************)
C10_UnsafePreserved ==
  (Done("unquote") /\ ret.kind = "ok") =>
    LET cs == SpecUnsafe(ctx) \ {37}
    IN  Only(ret.val, cs) = Only(inp, cs)

C10_Witness ==
  /\ Done("unquote")
  /\ ctx = "path"
  /\ inp = S(<<"/", "%", "2", "f">>)
  /\ ret = Ok(S(<<"/", "%", "2", "F">>))

=============================================================================
